---- MODULE Spec2Model ----
(***************************************************************************)
(* Word Oracle server (src/index.ts): the session state, the WebSocket     *)
(* handlers (open, message, close), startNewRound with its suspension      *)
(* points, the question/guess pipeline with its round-epoch check, and the *)
(* word table.  Handlers run to completion between awaits; every await on  *)
(* a network call is a point where other handlers interleave.              *)
(*                                                                         *)
(* Strings are sequences of one-character strings.  The JavaScript null of *)
(* a string-valued field is the empty sequence: the code reads those       *)
(* fields only through truthiness, where null and "" agree.                *)
(***************************************************************************)
EXTENDS Integers, Sequences, FiniteSets, TLC

\* ------------------------------------------------------------ bounds
\* player ids ever minted by accepted connections in Spec
MaxIds == 2
\* question/guess submissions ever accepted in Spec
MaxQueries == 2
\* the round counter is capped here (the guards stop new startNewRound calls)
MaxRound == 2
\* entries in one generated batch
MaxBatch == 1
\* in Spec, joins, leaves and submissions come only while chatHistory is
\* shorter than this; no resumed handler and no timer is ever held back
MaxChat == 5
\* the same three bounds in SpecRace
RaceIds == 2
RaceQueries == 3
RaceChat == 7
\* player ids ever minted in SpecCap (one more than the room holds)
MaxCapIds == 9
\* chatHistory length up to which SpecCap lets players leave
MaxCapChat == 10
\* rejected sockets whose close event is still to come
MaxRejected == 1
\* entries in one batch handed to saveWordsToDb in SpecCorpus
CorpusBatch == 2
\* player ids, submissions and chatHistory length in SpecReject
RejectIds == 9
RejectQueries == 2
RejectChat == 11

\* player ids, submissions and chatHistory length in SpecLive
LiveIds == 2
LiveQueries == 3
LiveChat == 6

\* ------------------------------------------------------------ program constants
maxPlayers == 8
MIN_WORDS_IN_DB == 5
\* ws.playerId of a socket that was never registered; also a null Player
NoPlayer == 0

\* ------------------------------------------------------------ strings
NullStr == <<>>

UpperChars == <<"A","B","C","D","E","F","G","H","I","J","K","L","M",
                "N","O","P","Q","R","S","T","U","V","W","X","Y","Z">>
LowerChars == <<"a","b","c","d","e","f","g","h","i","j","k","l","m",
                "n","o","p","q","r","s","t","u","v","w","x","y","z">>

IsSpace(c) == c \in {" ", "\t", "\n"}

LowerChar(c) ==
    IF \E i \in 1..26 : UpperChars[i] = c
    THEN LowerChars[CHOOSE i \in 1..26 : UpperChars[i] = c]
    ELSE c

UpperChar(c) ==
    IF \E i \in 1..26 : LowerChars[i] = c
    THEN UpperChars[CHOOSE i \in 1..26 : LowerChars[i] = c]
    ELSE c

toLowerCase(s) == [i \in 1..Len(s) |-> LowerChar(s[i])]
toUpperCase(s) == [i \in 1..Len(s) |-> UpperChar(s[i])]

\* String.prototype.trim
trim(s) ==
    LET keep == {i \in 1..Len(s) : ~IsSpace(s[i])}
    IN IF keep = {} THEN <<>>
       ELSE LET lo == CHOOSE i \in keep : \A j \in keep : i <= j
                hi == CHOOSE i \in keep : \A j \in keep : j <= i
            IN SubSeq(s, lo, hi)

startsWith(s, pre) == Len(s) >= Len(pre) /\ SubSeq(s, 1, Len(pre)) = pre

\* String.prototype.includes
includes(s, sub) ==
    \E i \in 0..(Len(s) - Len(sub)) : SubSeq(s, i + 1, i + Len(sub)) = sub

\* s.replace(/^(the|a|an)\s+/i, ""): one leading article and the whitespace
\* run after it
\* mutant: no article is removed
stripArticle_none(s) == s

stripArticle(s) ==
    LET low == toLowerCase(s)
        arts == {a \in {<<"t","h","e">>, <<"a">>, <<"a","n">>} :
                    /\ startsWith(low, a)
                    /\ Len(s) > Len(a)
                    /\ IsSpace(s[Len(a) + 1])}
    IN IF arts = {} THEN s
       ELSE LET a == CHOOSE x \in arts : TRUE
                rest == SubSeq(s, Len(a) + 1, Len(s))
                ns == {i \in 1..Len(rest) : ~IsSpace(rest[i])}
            IN IF ns = {} THEN <<>>
               ELSE SubSeq(rest, CHOOSE i \in ns : \A j \in ns : i <= j, Len(rest))

normalize(s) == stripArticle(trim(toLowerCase(s)))

\* mutant: the substring rule without its length guard
checkGuess_anyLength(guess, secret) ==
    IF secret = NullStr THEN FALSE
    ELSE LET normalizedGuess == normalize(guess)
             normalizedWord == normalize(secret)
         IN \/ normalizedGuess = normalizedWord
            \/ Append(normalizedGuess, "s") = normalizedWord
            \/ normalizedGuess = Append(normalizedWord, "s")
            \/ includes(normalizedGuess, normalizedWord)
            \/ includes(normalizedWord, normalizedGuess)

\* checkGuess(guess) against gameState.secretWord
checkGuess(guess, secret) ==
    IF secret = NullStr THEN FALSE
    ELSE LET normalizedGuess == normalize(guess)
             normalizedWord == normalize(secret)
         IN \/ normalizedGuess = normalizedWord
            \/ Append(normalizedGuess, "s") = normalizedWord
            \/ normalizedGuess = Append(normalizedWord, "s")
            \/ /\ \/ includes(normalizedGuess, normalizedWord)
                  \/ includes(normalizedWord, normalizedGuess)
               /\ Len(normalizedWord) > 3

\* detectGuess: the classifier's reply to the target of the guess, or null
detectGuess(response) ==
    IF startsWith(toUpperCase(response), <<"G","U","E","S","S",":">>)
    THEN trim(SubSeq(response, 7, Len(response)))
    ELSE NullStr

\* ------------------------------------------------------------ data
str_cat == <<"c","a","t">>
str_pizza == <<"p","i","z","z","a">>

\* the rows a batch generation can produce (WordEntry: word, category, facts)
Entries ==
    { [word |-> str_cat, category |-> "animal", facts |-> "f1"],
      [word |-> str_pizza, category |-> "thing", facts |-> "f1"] }

NullEntry == [word |-> NullStr, category |-> "null", facts |-> "null"]

\* no helper function has been called directly
NoCall == [fn |-> "none"]

\* parsed.words of one generateAndSaveWords call
Batches == UNION {[1..n -> Entries] : n \in 0..MaxBatch}

\* replies of the classifier call
Responses ==
    { <<"N","O","T","_","A","_","G","U","E","S","S">>,
      <<"G","U","E","S","S",":">>,
      <<"G","U","E","S","S",":"," ","c","a","t">>,
      <<"g","u","e","s","s",":","P","i","z","z","a">> }

\* data.content of a question/message payload
Contents == { <<"i","s"," ","i","t","?">>, <<" ">> }

\* ChatMessage; name and colour of a player are stood for by the player's id
SystemMsg(kind, p) ==
    [type |-> "system", sender |-> "system", playerId |-> NoPlayer,
     kind |-> kind, about |-> p, query |-> 0]
PlayerMsg(p, q) ==
    [type |-> "question", sender |-> "player", playerId |-> p,
     kind |-> "question", about |-> p, query |-> q]
OracleMsg(kind, p, q) ==
    [type |-> "answer", sender |-> "ai", playerId |-> NoPlayer,
     kind |-> kind, about |-> p, query |-> q]

\* ------------------------------------------------------------ state
VARIABLES
    players,             \* gameState.players: ids in join order
    score,               \* Player.score of every Player object ever created
    connections,         \* keys of the connections map
    pendingClose,        \* rejected sockets whose close event has not run yet
    nextId,              \* the next fresh player id
    secretWord, currentWordEntry, round, chatHistory, thinkingForPlayers,
    lastWinner, corpusReady,
    db,                  \* rows of the words table
    queries,             \* message handlers suspended in an Oracle call
    nextQuery,           \* the next fresh query id
    starts,              \* startNewRound calls suspended in generateAndSaveWords
    timers,              \* pending setTimeout callbacks of the win path
    sent,                \* what the last handler step sent, in order
    step,                \* history: the handler branch the last step took
    wins,                \* history: wins accepted since secretWord was last set
    guessed,             \* history: words that were correctly guessed
    lastCall,            \* history: the last direct call of a helper function,
                         \* with its arguments and its result
    client               \* history: what the connected clients were last told:
                         \* the round of the last welcome, state or new_round
                         \* event, and the round of the last new_round event

vars == <<players, score, connections, pendingClose, nextId, secretWord,
          currentWordEntry, round, chatHistory, thinkingForPlayers, lastWinner,
          corpusReady, db, queries, nextQuery, starts, timers, sent, step, wins,
          guessed, lastCall, client>>

\* the state a handler step starts from; nothing sent yet
gameState ==
    [players |-> players, score |-> score, connections |-> connections,
     secretWord |-> secretWord, currentWordEntry |-> currentWordEntry,
     round |-> round, chatHistory |-> chatHistory,
     thinkingForPlayers |-> thinkingForPlayers, lastWinner |-> lastWinner,
     corpusReady |-> corpusReady, db |-> db, starts |-> starts,
     timers |-> timers, sent |-> <<>>, wins |-> wins, guessed |-> guessed]

\* what every action leaves alone unless it says otherwise
Others == <<pendingClose, nextId, queries, nextQuery>>

\* the events of a step that carry the round number
RoundEvents(events, types) ==
    {i \in 1..Len(events) : events[i].type \in types}

\* what the clients have been told once the events of a step are delivered
Delivered(c, events) ==
    LET all == RoundEvents(events, {"welcome", "state", "new_round"})
        new == RoundEvents(events, {"new_round"})
        last(S) == CHOOSE i \in S : \A j \in S : j <= i
    IN [round |-> IF all = {} THEN c.round ELSE events[last(all)].round,
        newRound |-> IF new = {} THEN c.newRound ELSE events[last(new)].round]

\* the state a handler step leaves; branch names the path it took
Commit(s, branch) ==
    /\ step' = branch
    /\ players' = s.players
    /\ score' = s.score
    /\ connections' = s.connections
    /\ secretWord' = s.secretWord
    /\ currentWordEntry' = s.currentWordEntry
    /\ round' = s.round
    /\ chatHistory' = s.chatHistory
    /\ thinkingForPlayers' = s.thinkingForPlayers
    /\ lastWinner' = s.lastWinner
    /\ corpusReady' = s.corpusReady
    /\ db' = s.db
    /\ starts' = s.starts
    /\ timers' = s.timers
    /\ sent' = s.sent
    /\ wins' = s.wins
    /\ guessed' = s.guessed
    /\ client' = Delivered(client, s.sent)
    /\ UNCHANGED lastCall

\* ------------------------------------------------------------ word table
getWordCountFromDb(d) == Cardinality(d)

\* mutant: a plain INSERT into a table without the UNIQUE constraint
insertOrIgnore_always(d, e) == d \cup {e}

\* INSERT OR IGNORE of one row: the UNIQUE word column decides
insertOrIgnore(d, e) ==
    IF \E x \in d : x.word = e.word THEN d ELSE d \cup {e}

RECURSIVE saveWordsToDb(_, _)
saveWordsToDb(d, words) ==
    IF words = <<>> THEN d
    ELSE saveWordsToDb(insertOrIgnore(d, Head(words)), Tail(words))

\* mutant: the DELETE is left out
deleteWordFromDb_kept(d, word) == d

deleteWordFromDb(d, word) == {x \in d : x.word # word}

\* the rows getRandomWordFromDb can return: any row, or null on an empty table
getRandomWordFromDb(d) == IF d = {} THEN {NullEntry} ELSE d

\* ------------------------------------------------------------ broadcasts
pushChat(s, msg) == [s EXCEPT !.chatHistory = Append(@, msg)]

send(s, ev) == [s EXCEPT !.sent = Append(@, ev)]

broadcastState(s) ==
    send(s, [type |-> "state", to |-> s.connections, players |-> s.players,
             round |-> s.round, chatHistory |-> s.chatHistory,
             thinkingForPlayers |-> s.thinkingForPlayers,
             lastWinner |-> s.lastWinner,
             hasSecretWord |-> (s.secretWord # NullStr),
             corpusReady |-> s.corpusReady])

\* mutant: the message reaches no socket but the first player's
broadcastMessage_toFirst(s, msg) ==
    send(s, [type |-> "chat_message", to |-> s.connections \cap {Head(s.players)},
             message |-> msg])

broadcastMessage(s, msg) ==
    send(s, [type |-> "chat_message", to |-> s.connections, message |-> msg])

broadcastThinkingForPlayer(s, playerId, isThinking) ==
    LET t == IF isThinking THEN s.thinkingForPlayers \cup {playerId}
             ELSE s.thinkingForPlayers \ {playerId}
    IN send([s EXCEPT !.thinkingForPlayers = t],
            [type |-> "thinking", to |-> s.connections, playerId |-> playerId,
             isThinking |-> isThinking, thinkingForPlayers |-> t])

clearAllThinkingStates(s) ==
    send([s EXCEPT !.thinkingForPlayers = {}],
         [type |-> "thinking", to |-> s.connections, playerId |-> NoPlayer,
          isThinking |-> FALSE, thinkingForPlayers |-> {}])

broadcastNewRound(s, winner) ==
    send([s EXCEPT !.lastWinner = winner],
         [type |-> "new_round", to |-> s.connections, round |-> s.round,
          winner |-> winner, players |-> s.players])

\* ------------------------------------------------------------ startNewRound
\* mutant: the counter is incremented twice
nextRound_twice(r) == r + 2

\* the new value of the round counter
nextRound(r) == r + 1

\* mutant: only the word is stored, not its entry
finishRound_wordOnly(s, winner, wordEntry) ==
    LET s1 == [s EXCEPT !.secretWord = wordEntry.word, !.wins = 0]
        systemMsg == SystemMsg("round_begins", winner)
    IN broadcastMessage(broadcastNewRound(pushChat(s1, systemMsg), winner), systemMsg)

\* lines 623-641: the word is set and the round announced
finishRound(s, winner, wordEntry) ==
    LET s1 == [s EXCEPT !.secretWord = wordEntry.word,
                        !.currentWordEntry = wordEntry,
                        !.wins = 0]
        systemMsg == SystemMsg("round_begins", winner)
    IN broadcastMessage(broadcastNewRound(pushChat(s1, systemMsg), winner), systemMsg)

\* lines 605-616 up to the await: a word is there, or the call suspends in
\* generateAndSaveWords
selectWord(s, call, wordEntry) ==
    IF wordEntry = NullEntry
    THEN [s EXCEPT !.starts = @ \cup {[call EXCEPT !.pc = "replenish"]}]
    ELSE finishRound(s, call.winner, wordEntry)

\* mutant: the chat log and the last winner are carried over
startNewRound_keepsLog(s, winner, wordEntry) ==
    LET s1 == [s EXCEPT !.round = nextRound(@)]
        s2 == clearAllThinkingStates(s1)
        call == [r |-> s2.round, winner |-> winner, pc |-> "init"]
    IN IF ~s2.corpusReady
       THEN LET s3 == broadcastState(pushChat(s2, SystemMsg("preparing", NoPlayer)))
            IN IF getWordCountFromDb(s3.db) >= MIN_WORDS_IN_DB
               THEN selectWord([s3 EXCEPT !.corpusReady = TRUE], call, wordEntry)
               ELSE [s3 EXCEPT !.starts = @ \cup {call}]
       ELSE selectWord(s2, call, wordEntry)

\* startNewRound(winner) up to its first real suspension; wordEntry is what
\* getRandomWordFromDb returns if the call gets that far
startNewRound(s, winner, wordEntry) ==
    LET s1 == [s EXCEPT !.round = nextRound(@), !.chatHistory = <<>>,
                        !.lastWinner = winner]
        s2 == clearAllThinkingStates(s1)
        call == [r |-> s2.round, winner |-> winner, pc |-> "init"]
    IN IF ~s2.corpusReady
       THEN LET s3 == broadcastState(pushChat(s2, SystemMsg("preparing", NoPlayer)))
            IN IF getWordCountFromDb(s3.db) >= MIN_WORDS_IN_DB
               THEN selectWord([s3 EXCEPT !.corpusReady = TRUE], call, wordEntry)
               ELSE [s3 EXCEPT !.starts = @ \cup {call}]
       ELSE selectWord(s2, call, wordEntry)


\* ------------------------------------------------------------ initial state
\* gameState and connections as constructed, over a words table holding d
InitDb(d) ==
    /\ players = <<>>
    /\ score = <<>>
    /\ connections = {}
    /\ pendingClose = 0
    /\ nextId = 1
    /\ secretWord = NullStr
    /\ currentWordEntry = NullEntry
    /\ round = 0
    /\ chatHistory = <<>>
    /\ thinkingForPlayers = {}
    /\ lastWinner = NoPlayer
    /\ corpusReady = FALSE
    /\ db = d
    /\ queries = {}
    /\ nextQuery = 1
    /\ starts = {}
    /\ timers = {}
    /\ sent = <<>>
    /\ step = "init"
    /\ wins = 0
    /\ guessed = {}
    /\ lastCall = NoCall
    /\ client = [round |-> 0, newRound |-> 0]

\* a fresh words.db
Init == InitDb({})

PlayerIds(s) == {s.players[i] : i \in 1..Len(s.players)}

\* ------------------------------------------------------------ websocket.open
\* mutant: the capacity test is off by one
isFull_offByOne(s) == Len(s.players) > maxPlayers

\* the room is full
isFull(s) == Len(s.players) >= maxPlayers

\* the join starts the first round
joinStartsRound(s) == Len(s.players) = 1 /\ s.secretWord = NullStr

\* lines 670-712 for the fresh id playerId
openAccepted(s, playerId, wordEntry) ==
    LET s1 == [s EXCEPT !.connections = @ \cup {playerId},
                        !.players = Append(@, playerId),
                        !.score = Append(@, 0)]
        s2 == send(s1, [type |-> "welcome", to |-> {playerId},
                        playerId |-> playerId, players |-> s1.players,
                        round |-> s1.round, chatHistory |-> s1.chatHistory,
                        thinkingForPlayers |-> s1.thinkingForPlayers,
                        lastWinner |-> s1.lastWinner,
                        hasSecretWord |-> (s1.secretWord # NullStr),
                        corpusReady |-> s1.corpusReady])
        s3 == broadcastState(pushChat(s2, SystemMsg("joined", playerId)))
    IN IF joinStartsRound(s3)
       THEN startNewRound(s3, NoPlayer, wordEntry)
       ELSE s3

\* lines 664-668: error to the new socket, which is closed
openRejected(s) ==
    send(s, [type |-> "error", to |-> {NoPlayer}, message |-> "Game is full!"])

Open(maxIds, maxChat) ==
    LET s == gameState
    IN IF isFull(s)
       THEN /\ pendingClose < MaxRejected
            /\ pendingClose' = pendingClose + 1
            /\ Commit(openRejected(s), "open_rejected")
            /\ UNCHANGED <<nextId, queries, nextQuery>>
       ELSE /\ nextId <= maxIds
            /\ Len(chatHistory) < maxChat
            /\ \/ round < MaxRound
               \/ ~(s.players = <<>> /\ s.secretWord = NullStr)
            /\ \E wordEntry \in getRandomWordFromDb(s.db) :
                  Commit(openAccepted(s, nextId, wordEntry), "open")
            /\ nextId' = nextId + 1
            /\ UNCHANGED <<pendingClose, queries, nextQuery>>

\* ------------------------------------------------------------ websocket.close
\* lines 878-899 for a socket whose playerId is in the player list
closeRegistered(s, playerId) ==
    LET s1 == [s EXCEPT !.players = SelectSeq(@, LAMBDA x : x # playerId),
                        !.connections = @ \ {playerId}]
    IN broadcastState(pushChat(s1, SystemMsg("left", playerId)))

\* ws is the socket's playerId; NoPlayer for a socket that open rejected
Close(ws, maxChat) ==
    LET s == gameState
    IN /\ IF ws # NoPlayer /\ ws \in PlayerIds(s)
          THEN /\ Len(chatHistory) < maxChat
               /\ Commit(closeRegistered(s, ws), "close")
               /\ UNCHANGED pendingClose
          ELSE /\ Commit(s, "close_unregistered")
               /\ pendingClose' = pendingClose - 1
       /\ UNCHANGED <<nextId, queries, nextQuery>>

\* the sockets whose close event can come
OpenSockets == connections \cup (IF pendingClose > 0 THEN {NoPlayer} ELSE {})

\* ------------------------------------------------------------ startNewRound, resumed
\* initializeCorpus resumes with the batch saved (lines 554-558), then lines 604 on
InitGenerated(call, words) ==
    LET s1 == [gameState EXCEPT !.db = saveWordsToDb(@, words),
                                !.corpusReady = TRUE,
                                !.starts = @ \ {call}]
    IN /\ call.pc = "init"
       /\ \E wordEntry \in getRandomWordFromDb(s1.db) :
             Commit(selectWord(s1, call, wordEntry), "init_generated")
       /\ UNCHANGED Others

\* generateAndSaveWords throws inside initializeCorpus (lines 559-561, 588-601);
\* words are the rows saveWordsToDb had inserted before the throw
InitFailed(call, words) ==
    LET s1 == [gameState EXCEPT !.db = saveWordsToDb(@, words),
                                !.starts = @ \ {call}]
    IN /\ call.pc = "init"
       /\ Commit(broadcastState(pushChat(s1, SystemMsg("init_failed", NoPlayer))),
                 "init_failed")
       /\ UNCHANGED Others

\* lines 611-612 and 618 on: the retry of the pick
Replenished(call, words) ==
    LET s1 == [gameState EXCEPT !.db = saveWordsToDb(@, words),
                                !.starts = @ \ {call}]
    IN /\ call.pc = "replenish"
       /\ \E wordEntry \in getRandomWordFromDb(s1.db) :
             Commit(IF wordEntry = NullEntry THEN s1
                    ELSE finishRound(s1, call.winner, wordEntry), "replenished")
       /\ UNCHANGED Others

\* mutant: the pick is retried after a failed generation too
ReplenishFailed_retries(call, words) ==
    LET s1 == [gameState EXCEPT !.db = saveWordsToDb(@, words),
                                !.starts = @ \ {call}]
    IN /\ call.pc = "replenish"
       /\ \E wordEntry \in getRandomWordFromDb(s1.db) :
             Commit(IF wordEntry = NullEntry THEN s1
                    ELSE finishRound(s1, call.winner, wordEntry), "replenish_failed")
       /\ UNCHANGED Others

\* lines 613-621: the generation threw, no word
ReplenishFailed(call, words) ==
    LET s1 == [gameState EXCEPT !.db = saveWordsToDb(@, words),
                                !.starts = @ \ {call}]
    IN /\ call.pc = "replenish"
       /\ Commit(s1, "replenish_failed")
       /\ UNCHANGED Others

\* ------------------------------------------------------------ websocket.message
\* lines 719-723: a message of any type on a socket that has no Player (the
\* socket open turned away, before its close event)
MessageUnregistered ==
    /\ pendingClose > 0
    /\ Commit(gameState, "message_unregistered")
    /\ UNCHANGED Others

\* payloads the handler cannot use: text that JSON.parse rejects, a type no
\* branch tests for, a question without content, a question whose content is
\* not a string
BadPayloads == {"not_json", "unknown_type", "no_content", "non_text_content"}

\* mutant: the question is posted before its content is looked at
malformed_posts(s, playerId, payload) ==
    IF payload \in {"no_content", "non_text_content"}
    THEN LET playerMsg == PlayerMsg(playerId, 0)
         IN broadcastMessage(pushChat(s, playerMsg), playerMsg)
    ELSE s

\* lines 718-732 and 870-872 for such a payload from a registered socket
malformed(s, playerId, payload) ==
    IF payload = "not_json"
    THEN s      \* JSON.parse throws; the outer catch logs it
    ELSE IF payload = "unknown_type"
    THEN s      \* no branch of the type dispatch is taken
    ELSE IF s.secretWord = NullStr \/ playerId \in s.thinkingForPlayers
    THEN s      \* the guard of line 729 returns first
    ELSE s      \* data.content.trim() throws; the outer catch logs it

Malformed(playerId, payload) ==
    /\ playerId \in PlayerIds(gameState)
    /\ Commit(malformed(gameState, playerId, payload), payload)
    /\ UNCHANGED Others

\* mutant: the guard forgets the sender's pending query
submissionRejected_thinkingAllowed(s, playerId, content) ==
    \/ s.secretWord = NullStr
    \/ trim(content) = NullStr

\* the submission guard of lines 729-732
submissionRejected(s, playerId, content) ==
    \/ s.secretWord = NullStr
    \/ playerId \in s.thinkingForPlayers
    \/ trim(content) = NullStr

\* lines 735-750: the question is posted and the player marked thinking
submit(s, playerId, q) ==
    LET playerMsg == PlayerMsg(playerId, q)
    IN broadcastThinkingForPlayer(
           broadcastMessage(pushChat(s, playerMsg), playerMsg), playerId, TRUE)

Submit(playerId, content, maxQueries, maxChat) ==
    LET s == gameState
    IN /\ playerId \in PlayerIds(s)
       /\ IF submissionRejected(s, playerId, content)
          THEN /\ Commit(s, "submit_rejected")
               /\ UNCHANGED <<queries, nextQuery>>
          ELSE /\ nextQuery <= maxQueries
               /\ Len(chatHistory) < maxChat
               /\ Commit(submit(s, playerId, nextQuery), "submit")
               /\ queries' = queries \cup
                     {[id |-> nextQuery, playerId |-> playerId,
                       requestRound |-> s.round, pc |-> "detectGuess",
                       orphan |-> FALSE, word |-> s.secretWord]}
               /\ nextQuery' = nextQuery + 1
       /\ UNCHANGED <<pendingClose, nextId>>

\* mutant: the epoch check is left out
isStale_never(s, q) == FALSE

\* mutant: only a query two rounds behind is stale
isStale_lagging(s, q) == s.round > q.requestRound + 1

\* the epoch check of lines 756 and 822
isStale(s, q) == s.round # q.requestRound

\* lines 758-759 and 823-824
discardStale(s, q) ==
    [s EXCEPT !.thinkingForPlayers = @ \ {q.playerId}]

\* mutant: the win is credited to every player
acceptWin_scoresAll(s, q) ==
    LET s1 == clearAllThinkingStates(s)
        s2 == [s1 EXCEPT !.score = [p \in DOMAIN @ |-> @[p] + 1]]
        revealedWord == s2.secretWord
        s3 == IF revealedWord # NullStr
              THEN [s2 EXCEPT !.db = deleteWordFromDb(@, revealedWord)]
              ELSE s2
        winMsg == OracleMsg("win", q.playerId, q.id)
        s4 == broadcastMessage(pushChat(s3, winMsg), winMsg)
    IN [s4 EXCEPT !.timers = @ \cup {[query |-> q.id, player |-> q.playerId,
                                      wonRound |-> s.round]},
                  !.wins = @ + 1,
                  !.guessed = @ \cup {revealedWord}]

\* lines 766-798: the win path
acceptWin(s, q) ==
    LET s1 == clearAllThinkingStates(s)
        s2 == [s1 EXCEPT !.score[q.playerId] = @ + 1]
        revealedWord == s2.secretWord
        s3 == IF revealedWord # NullStr
              THEN [s2 EXCEPT !.db = deleteWordFromDb(@, revealedWord)]
              ELSE s2
        winMsg == OracleMsg("win", q.playerId, q.id)
        s4 == broadcastMessage(pushChat(s3, winMsg), winMsg)
    IN [s4 EXCEPT !.timers = @ \cup {[query |-> q.id, player |-> q.playerId,
                                      wonRound |-> s.round]},
                  !.wins = @ + 1,
                  !.guessed = @ \cup {revealedWord}]

\* lines 800-815 (kind "wrong") and 827-842 (kind "answer")
\* mutant: the reply is posted but the player's flag is left set
postAnswer_keepsFlag(s, q, kind) ==
    LET msg == OracleMsg(kind, q.playerId, q.id)
    IN broadcastMessage(pushChat(s, msg), msg)

postAnswer(s, q, kind) ==
    LET msg == OracleMsg(kind, q.playerId, q.id)
    IN broadcastThinkingForPlayer(
           broadcastMessage(pushChat(s, msg), msg), q.playerId, FALSE)

\* answerQuestion returns without a call when no game is in progress
answersAtOnce(s) == s.secretWord = NullStr \/ s.currentWordEntry = NullEntry

\* mutant: whatever the classifier calls a guess wins
DetectReturned_guessWins(q, response) ==
    LET s == gameState
        guessedWord == detectGuess(response)
    IN /\ q.pc = "detectGuess"
       /\ IF isStale(s, q)
          THEN /\ Commit(discardStale(s, q), "stale")
               /\ queries' = queries \ {q}
          ELSE IF guessedWord # NullStr
          THEN /\ Commit(acceptWin(s, q), "win")
               /\ queries' = {[x EXCEPT !.orphan = TRUE] : x \in queries \ {q}}
          ELSE IF answersAtOnce(s)
               THEN /\ Commit(postAnswer(s, q, "answer"), "answer")
                    /\ queries' = queries \ {q}
               ELSE /\ Commit(s, "ask")
                    /\ queries' = (queries \ {q}) \cup {[q EXCEPT !.pc = "answerQuestion"]}
       /\ UNCHANGED <<pendingClose, nextId, nextQuery>>

\* detectGuess returned response to the handler of q (lines 753-819)
DetectReturned(q, response) ==
    LET s == gameState
        guessedWord == detectGuess(response)
    IN /\ q.pc = "detectGuess"
       /\ IF isStale(s, q)
          THEN /\ Commit(discardStale(s, q), "stale")
               /\ queries' = queries \ {q}
          ELSE IF guessedWord # NullStr
          THEN IF checkGuess(guessedWord, s.secretWord)
               THEN /\ Commit(acceptWin(s, q), "win")
                    /\ queries' = {[x EXCEPT !.orphan = TRUE] : x \in queries \ {q}}
               ELSE /\ Commit(postAnswer(s, q, "wrong"), "wrong")
                    /\ queries' = queries \ {q}
          ELSE IF answersAtOnce(s)
               THEN /\ Commit(postAnswer(s, q, "answer"), "answer")
                    /\ queries' = queries \ {q}
               ELSE /\ Commit(s, "ask")
                    /\ queries' = (queries \ {q}) \cup {[q EXCEPT !.pc = "answerQuestion"]}
       /\ UNCHANGED <<pendingClose, nextId, nextQuery>>

\* answerQuestion returned to the handler of q (lines 819-842)
AnswerReturned(q) ==
    LET s == gameState
    IN /\ q.pc = "answerQuestion"
       /\ IF isStale(s, q)
          THEN Commit(discardStale(s, q), "stale")
          ELSE Commit(postAnswer(s, q, "answer"), "answer")
       /\ queries' = queries \ {q}
       /\ UNCHANGED <<pendingClose, nextId, nextQuery>>

\* mutant: the catch clears the flag whatever the round
QueryFailed_alwaysClears(q) ==
    LET s == gameState
    IN /\ Commit(broadcastThinkingForPlayer(s, q.playerId, FALSE),
                 IF s.round = q.requestRound THEN "failed" ELSE "failed_stale")
       /\ queries' = queries \ {q}
       /\ UNCHANGED <<pendingClose, nextId, nextQuery>>

\* an Oracle call of q threw (lines 844-850)
QueryFailed(q) ==
    LET s == gameState
    IN /\ IF s.round = q.requestRound
          THEN Commit(broadcastThinkingForPlayer(s, q.playerId, FALSE), "failed")
          ELSE Commit(s, "failed_stale")
       /\ queries' = queries \ {q}
       /\ UNCHANGED <<pendingClose, nextId, nextQuery>>

\* lines 852-856
NewRoundRequest(playerId) ==
    LET s == gameState
    IN /\ playerId \in PlayerIds(s)
       /\ IF s.thinkingForPlayers = {}
          THEN /\ round < MaxRound
               /\ \E wordEntry \in getRandomWordFromDb(s.db) :
                     Commit(startNewRound(s, NoPlayer, wordEntry), "new_round")
          ELSE Commit(s, "new_round_ignored")
       /\ UNCHANGED Others

\* mutant: the skip also consumes the word
skipRound_deleting(s) ==
    IF s.thinkingForPlayers = {} /\ s.secretWord # NullStr
    THEN send([s EXCEPT !.db = deleteWordFromDb(@, s.secretWord)],
              [type |-> "round_skipped", to |-> s.connections,
               word |-> s.secretWord, category |-> s.currentWordEntry.category])
    ELSE s

\* mutant: the skip is honored whatever the state
skipRound_unguarded(s) ==
    send(s, [type |-> "round_skipped", to |-> s.connections,
             word |-> s.secretWord, category |-> s.currentWordEntry.category])

\* lines 857-869
skipRound(s) ==
    IF s.thinkingForPlayers = {} /\ s.secretWord # NullStr
    THEN send(s, [type |-> "round_skipped", to |-> s.connections,
                  word |-> s.secretWord, category |-> s.currentWordEntry.category])
    ELSE s

SkipRound(playerId) ==
    /\ playerId \in PlayerIds(gameState)
    /\ Commit(skipRound(gameState),
              IF gameState.thinkingForPlayers = {} /\ gameState.secretWord # NullStr
              THEN "skip" ELSE "skip_ignored")
    /\ UNCHANGED Others

\* the setTimeout callback of lines 796-798
TimerFired(t) ==
    LET s == [gameState EXCEPT !.timers = @ \ {t}]
    IN /\ round < MaxRound
       /\ \E wordEntry \in getRandomWordFromDb(s.db) :
             Commit(startNewRound(s, t.player, wordEntry), "timer")
       /\ UNCHANGED Others

\* ------------------------------------------------------------ specifications
Next ==
    \/ Open(MaxIds, MaxChat)
    \/ \E ws \in OpenSockets : Close(ws, MaxChat)
    \/ \E call \in starts, words \in Batches : InitGenerated(call, words)
    \/ \E call \in starts, words \in Batches : InitFailed(call, words)
    \/ \E call \in starts, words \in Batches : Replenished(call, words)
    \/ \E call \in starts, words \in Batches : ReplenishFailed(call, words)
    \/ \E playerId \in connections, content \in Contents :
          Submit(playerId, content, MaxQueries, MaxChat)
    \/ \E q \in queries, response \in Responses : DetectReturned(q, response)
    \/ \E q \in queries : AnswerReturned(q)
    \/ \E q \in queries : QueryFailed(q)
    \/ \E playerId \in connections : NewRoundRequest(playerId)
    \/ \E playerId \in connections : SkipRound(playerId)
    \/ \E t \in timers : TimerFired(t)

Spec == Init /\ [][Next]_vars

\* ------------------------------------------------------------ helpers called directly
\* what a direct call of a word-table helper or of checkGuess leaves alone
Idle ==
    <<players, score, connections, pendingClose, nextId, secretWord,
      currentWordEntry, round, chatHistory, thinkingForPlayers, lastWinner,
      corpusReady, queries, nextQuery, starts, timers, sent, wins, guessed,
      client>>

\* rows a generator can return: every word comes in several versions
CorpusEntries ==
    [word : {str_cat, str_pizza}, category : {"animal", "thing"},
     facts : {"f1", "f2"}]

CorpusBatches == UNION {[1..n -> CorpusEntries] : n \in 0..CorpusBatch}

\* saveWordsToDb(words)
SaveWords(words) ==
    /\ db' = saveWordsToDb(db, words)
    /\ lastCall' = [fn |-> "saveWordsToDb", words |-> words]
    /\ step' = "saveWordsToDb"
    /\ UNCHANGED Idle

\* deleteWordFromDb(word)
DeleteWord(word) ==
    /\ db' = deleteWordFromDb(db, word)
    /\ lastCall' = [fn |-> "deleteWordFromDb", word |-> word]
    /\ step' = "deleteWordFromDb"
    /\ UNCHANGED Idle

\* the word table under any sequence of batch insertions and deletions
NextCorpus ==
    \/ \E words \in CorpusBatches : SaveWords(words)
    \/ \E e \in CorpusEntries : DeleteWord(e.word)

SpecCorpus == Init /\ [][NextCorpus]_vars

\* ------------------------------------------------------------ checkGuess called directly
\* values of gameState.secretWord; the empty one is null
Secrets ==
    { NullStr,
      <<"c","a","t">>,
      <<"C","a","t">>,
      <<"P","i","z","z","a">>,
      <<"p","i","z","z","a">>,
      <<"p","i","z","z","a","s">>,
      <<"a","s">>,
      <<"a","n"," ","o","x">> }

\* arguments of checkGuess: the terms detectGuess can return
Guesses ==
    { <<"p","i","z">>,
      <<"t","h","e"," ","p","i","z","z","a">>,
      <<"p","i","z","z","a","s">>,
      <<"p","i","z","z","a">>,
      <<" ","P","I","Z","Z","A"," ">>,
      <<"h","o","t"," ","p","i","z","z","a">>,
      <<"z","z">>,
      <<"c","a","t">>,
      <<"c","a","t","s">>,
      <<"c","a">>,
      <<"t","h","e"," ","c","a","t">>,
      <<"a"," "," ","c","a","t">>,
      <<"a","t">>,
      <<"a">>,
      <<"s">>,
      <<"o","x">>,
      <<"o">>,
      <<"t","h","e">> }

\* a session whose secret word is any of Secrets
InitGuess ==
    /\ players = <<>>
    /\ score = <<>>
    /\ connections = {}
    /\ pendingClose = 0
    /\ nextId = 1
    /\ secretWord \in Secrets
    /\ currentWordEntry =
          IF secretWord = NullStr THEN NullEntry
          ELSE [word |-> secretWord, category |-> "thing", facts |-> "f1"]
    /\ round = 0
    /\ chatHistory = <<>>
    /\ thinkingForPlayers = {}
    /\ lastWinner = NoPlayer
    /\ corpusReady = FALSE
    /\ db = {}
    /\ queries = {}
    /\ nextQuery = 1
    /\ starts = {}
    /\ timers = {}
    /\ sent = <<>>
    /\ step = "init"
    /\ wins = 0
    /\ guessed = {}
    /\ lastCall = NoCall
    /\ client = [round |-> 0, newRound |-> 0]

\* checkGuess(guess)
CheckGuess(guess) ==
    /\ lastCall' = [fn |-> "checkGuess", guess |-> guess,
                    result |-> checkGuess(guess, secretWord)]
    /\ step' = "checkGuess"
    /\ UNCHANGED db
    /\ UNCHANGED Idle

NextGuess == \E guess \in Guesses : CheckGuess(guess)

SpecGuess == InitGuess /\ [][NextGuess]_vars

\* a room that fills up while questions come in and none is answered
NextReject ==
    \/ Open(RejectIds, RejectChat)
    \/ \E call \in starts, words \in Batches : InitGenerated(call, words)
    \/ \E playerId \in connections, content \in Contents :
          Submit(playerId, content, RejectQueries, RejectChat)
    \/ MessageUnregistered

SpecReject == Init /\ [][NextReject]_vars

\* connects and disconnects alone, up to a full room and beyond
NextCap ==
    \/ Open(MaxCapIds, MaxCapChat)
    \/ \E ws \in OpenSockets : Close(ws, MaxCapChat)

SpecCap == Init /\ [][NextCap]_vars

\* two players racing their queries through one win and the round after it
NextRace ==
    \/ Open(RaceIds, RaceChat)
    \/ \E call \in starts, words \in Batches : InitGenerated(call, words)
    \/ \E playerId \in connections, content \in Contents :
          Submit(playerId, content, RaceQueries, RaceChat)
    \/ \E q \in queries, response \in Responses : DetectReturned(q, response)
    \/ \E t \in timers : TimerFired(t)

SpecRace == Init /\ [][NextRace]_vars

\* the same race with the answer calls returning too
NextDecide ==
    \/ NextRace
    \/ \E q \in queries : AnswerReturned(q)

SpecDecide == Init /\ [][NextDecide]_vars

\* the same race with payloads the handler cannot use arriving in between
NextMalformed ==
    \/ NextRace
    \/ \E playerId \in connections, payload \in BadPayloads :
          Malformed(playerId, payload)

SpecMalformed == Init /\ [][NextMalformed]_vars

\* players joining, asking and leaving through a win and the round after it,
\* with every outcome of an Oracle call: a reply or a failure
NextLive ==
    \/ Open(LiveIds, LiveChat)
    \/ \E ws \in OpenSockets : Close(ws, LiveChat)
    \/ \E call \in starts, words \in Batches : InitGenerated(call, words)
    \/ \E playerId \in connections, content \in Contents :
          Submit(playerId, content, LiveQueries, LiveChat)
    \/ \E q \in queries, response \in Responses : DetectReturned(q, response)
    \/ \E q \in queries : AnswerReturned(q)
    \/ \E q \in queries : QueryFailed(q)
    \/ \E t \in timers : TimerFired(t)

\* the pending Oracle call of the handler with query id i settles
Settles(i) ==
    \E q \in queries :
       /\ q.id = i
       /\ \/ \E response \in Responses : DetectReturned(q, response)
          \/ AnswerReturned(q)
          \/ QueryFailed(q)

\* every Oracle call eventually returns or fails; submissions stop because the
\* number of queries is bounded
SpecLive ==
    /\ Init
    /\ [][NextLive]_vars
    /\ \A i \in 1..LiveQueries : WF_vars(Settles(i))

\* ------------------------------------------------------------ claims
\* the handler of query q was resumed by this step
Resumed(q) == ~\E x \in queries' : x.id = q.id /\ x.pc = q.pc

\* the words of the rows of a table
WordsOf(d) == {e.word : e \in d}

\* this step accepted a correct guess: only the win path schedules a timer
WinStep == timers' \ timers # {}

\* C1: when an Oracle call of a query that captured round N returns or fails
\* while round > N, the resumed handler appends no message to chatHistory,
\* broadcasts nothing, changes no score, deletes no word and schedules no
\* new round.
C1_StaleResultDiscarded ==
    [][\A q \in queries :
          (Resumed(q) /\ round > q.requestRound) =>
              /\ chatHistory' = chatHistory
              /\ \A i \in 1..Len(sent') : sent'[i].type # "chat_message"
              /\ score' = score
              /\ db' = db
              /\ timers' = timers
              /\ starts' = starts
              /\ round' = round
              /\ secretWord' = secretWord]_vars

\* a stale query has just been discarded after its round was left behind
C1_Witness ==
    /\ step = "stale"
    /\ round >= 2
    /\ chatHistory # <<>>

\* C2 (as claimed): a stale resolution leaves thinkingForPlayers exactly as
\* it was.
C2_StaleLeavesThinking ==
    [][\A q \in queries :
          (Resumed(q) /\ round > q.requestRound) =>
              thinkingForPlayers' = thinkingForPlayers]_vars

\* C3 (as claimed): no player has two in-flight queries that captured the
\* current round.
C3_OneOutstandingQuery ==
    \A p \in 1..(nextId - 1) :
        Cardinality({q \in queries : q.playerId = p /\ q.requestRound = round}) <= 1

\* C4 (as claimed): between two assignments of secretWord at most one win is
\* accepted (one win message, one score increment).
C4_OnlyFirstGuessScores == wins <= 1

\* C5 (as claimed): a query that was in flight when a correct guess was
\* accepted produces, when it resumes, no chat message, no score change and
\* no further win.
C5_OrphansDiscarded ==
    [][\A q \in queries :
          (q.orphan /\ Resumed(q)) =>
              /\ chatHistory' = chatHistory
              /\ score' = score
              /\ ~WinStep]_vars

\* C6 (as claimed): after a win in round N the round stays N while the grace
\* timer is pending, and the timer's startNewRound makes it N+1 (the round a
\* new_round event of that step carries).
C6_OneAdvancePerWin ==
    [][/\ \A t \in timers' : round' = t.wonRound
       /\ \A t \in timers \ timers' :
             /\ round' = t.wonRound + 1
             /\ \A i \in 1..Len(sent') :
                   sent'[i].type = "new_round" => sent'[i].round = t.wonRound + 1]_vars

\* C7: the player list never exceeds maxPlayers; a connection attempt made
\* while maxPlayers players are present gets an error, is closed and changes
\* no session state, and the close event of that socket changes none either.
SessionState ==
    <<players, score, connections, nextId, secretWord, currentWordEntry, round,
      chatHistory, thinkingForPlayers, lastWinner, corpusReady, db, queries,
      nextQuery, starts, timers>>

C7_Capacity ==
    [][/\ Len(players') <= maxPlayers
       /\ (Len(players) = maxPlayers /\ step' \in {"open", "open_rejected"}) =>
             /\ sent' = <<[type |-> "error", to |-> {NoPlayer},
                           message |-> "Game is full!"]>>
             /\ pendingClose' = pendingClose + 1
             /\ UNCHANGED SessionState
       /\ step' = "close_unregistered" =>
             /\ sent' = <<>>
             /\ UNCHANGED SessionState]_vars

\* a ninth socket was turned away from a full room
C7_Witness ==
    /\ Len(players) = maxPlayers
    /\ step = "open_rejected"
    /\ pendingClose = 1

\* C8: round starts at 0 and changes only by +1, in a step that runs the
\* start of startNewRound (the thinking set is cleared and the clearing
\* broadcast).
C8_RoundCounter ==
    /\ round = 0
    /\ [][round' # round =>
             /\ round' = round + 1
             /\ thinkingForPlayers' = {}
             /\ \E i \in 1..Len(sent') :
                   /\ sent'[i].type = "thinking"
                   /\ sent'[i].thinkingForPlayers = {}
             /\ step' \in {"open", "new_round", "timer"}]_vars

\* the counter has been incremented twice
C8_Witness == round = 2 /\ step = "timer"

\* C9 (as claimed): a step that sets the secret word (and announces the
\* round) never picks a word that was correctly guessed before.
C9_NoReselection ==
    [][(\E i \in 1..Len(sent') : sent'[i].type = "new_round") =>
          secretWord' \notin guessed]_vars

SkipFrame ==
    <<players, score, connections, pendingClose, nextId, secretWord,
      currentWordEntry, round, chatHistory, thinkingForPlayers, lastWinner,
      corpusReady, db, queries, nextQuery, starts, timers>>

\* this step handled a skip_round request
SkipRequested == step' \in {"skip", "skip_ignored"}

C12_SkipDeletesWord ==
    [][step' = "skip" => secretWord \notin WordsOf(db')]_vars

\* C13: no two rows of the word table have the same word, whatever batches
\* were inserted (a word repeated within a batch or already stored included)
\* and whatever was deleted; an insertion leaves every stored row, with its
\* category and facts, as it was.
C13_UniqueWords ==
    /\ [](\A x, y \in db : x.word = y.word => x = y)
    /\ [][step' = "saveWordsToDb" => db \subseteq db']_vars

\* the last batch held a row that was ignored: its word is stored with
\* another category or other facts
C13_Witness ==
    /\ lastCall.fn = "saveWordsToDb"
    /\ \E i \in 1..Len(lastCall.words) :
          /\ lastCall.words[i] \notin db
          /\ lastCall.words[i].word \in WordsOf(db)

\* the last step called checkGuess
Checked == lastCall.fn = "checkGuess"

\* the normalized forms are equal or differ by one trailing "s"
SameOrPlural(g, w) ==
    \/ g = w
    \/ Append(g, "s") = w
    \/ g = Append(w, "s")

\* C14 (as claimed): checkGuess returns false for a guess whose normalized
\* form is a proper substring of the normalized secret word and is neither
\* equal to it nor its singular or plural form ("piz" against "pizza").
C14_FragmentRejected ==
    (/\ Checked
     /\ includes(normalize(secretWord), normalize(lastCall.guess))
     /\ ~SameOrPlural(normalize(lastCall.guess), normalize(secretWord)))
        => ~lastCall.result

\* C15: with a secret word set, checkGuess returns true whenever guess and
\* secret word are equal after lowercasing, trimming and stripping one
\* leading article, or differ only by one trailing "s" after that; so it
\* does for "the pizza" against "Pizza", "pizzas" against "pizza" and
\* "the cat" against "Cat".
C15_NormalizedMatch ==
    (Checked /\ secretWord # NullStr) =>
        /\ SameOrPlural(normalize(lastCall.guess), normalize(secretWord))
              => lastCall.result
        /\ <<lastCall.guess, secretWord>> \in
              { <<<<"t","h","e"," ","p","i","z","z","a">>, <<"P","i","z","z","a">>>>,
                <<<<"p","i","z","z","a","s">>, <<"p","i","z","z","a">>>>,
                <<<<"t","h","e"," ","c","a","t">>, <<"C","a","t">>>>,
                <<<<"a"," "," ","c","a","t">>, <<"c","a","t">>>> }
              => lastCall.result

\* "the pizza" was accepted against "Pizza"
C15_Witness ==
    /\ Checked
    /\ lastCall.guess = <<"t","h","e"," ","p","i","z","z","a">>
    /\ secretWord = <<"P","i","z","z","a">>
    /\ lastCall.result

\* C16: when the normalized secret word has 3 characters or fewer,
\* checkGuess returns true only on an exact or a singular/plural match of
\* the normalized forms; containment in either direction is not enough.
C16_ShortWordGuard ==
    (Checked /\ Len(normalize(secretWord)) <= 3 /\ lastCall.result) =>
        SameOrPlural(normalize(lastCall.guess), normalize(secretWord))

\* a fragment of a three-letter word was turned down
C16_Witness ==
    /\ Checked
    /\ secretWord = str_cat
    /\ lastCall.guess = <<"c","a">>
    /\ ~lastCall.result

\* C17: a question or guess received with no secret word set, or from a
\* player already in thinkingForPlayers, or with content that is empty once
\* trimmed, and any message on a socket with no registered player, appends
\* nothing to chatHistory, sends nothing, starts no Oracle call and changes
\* no session state; a submission that is processed came with a secret word
\* set from a registered player who was not thinking.
C17_RejectedIsNoOp ==
    [][/\ step' \in {"submit_rejected", "message_unregistered"} =>
             /\ sent' = <<>>
             /\ UNCHANGED SkipFrame
       /\ (step' \in {"submit", "submit_rejected"} /\ secretWord = NullStr) =>
             /\ sent' = <<>>
             /\ UNCHANGED SkipFrame
       /\ \A q \in queries' :
             (\A x \in queries : x.id # q.id) =>
                 /\ secretWord # NullStr
                 /\ q.playerId \notin thinkingForPlayers
                 /\ q.playerId \in PlayerIds(gameState)]_vars

\* a player with a query pending has just been turned down, in a full room
\* whose ninth socket is still open
C17_Witness ==
    /\ step = "submit_rejected"
    /\ secretWord # NullStr
    /\ thinkingForPlayers # {}
    /\ Len(players) = maxPlayers
    /\ pendingClose > 0

\* this step handled a new_round request
NewRoundRequested == step' \in {"new_round", "new_round_ignored"}

\* C18 (as claimed): while one query is in flight and never resolves, a
\* new_round request is honored, and so is a skip_round request made with a
\* secret word set.
C18_HungQueryBlocksNothing ==
    [][(Cardinality(queries) = 1 /\ queries' = queries) =>
          /\ step' # "new_round_ignored"
          /\ step' = "skip_ignored" => secretWord = NullStr]_vars

\* C19: a new_round request received while thinkingForPlayers is non-empty,
\* and a skip_round request received while thinkingForPlayers is non-empty
\* or no secret word is set, change no session state and send nothing; a
\* new_round request received while thinkingForPlayers is empty starts a
\* round: the counter advances by one and the round's clearing broadcast
\* goes out.
C19_GuardedControls ==
    [][/\ (NewRoundRequested /\ thinkingForPlayers # {}) =>
             /\ sent' = <<>>
             /\ UNCHANGED SkipFrame
       /\ (SkipRequested /\ (thinkingForPlayers # {} \/ secretWord = NullStr)) =>
             /\ sent' = <<>>
             /\ UNCHANGED SkipFrame
       /\ (NewRoundRequested /\ thinkingForPlayers = {}) =>
             /\ round' = round + 1
             /\ sent' # <<>>
             /\ sent'[1].type = "thinking"
             /\ sent'[1].thinkingForPlayers = {}]_vars

\* a new_round request has just been ignored because a query is pending
C19_Witness ==
    /\ step = "new_round_ignored"
    /\ thinkingForPlayers # {}
    /\ queries # {}
    /\ secretWord # NullStr

\* C20 (as claimed): thinkingForPlayers holds only ids of players in the
\* player list.
C20_ThinkingSubsetPlayers ==
    thinkingForPlayers \subseteq PlayerIds(gameState)

\* C21: secretWord and currentWordEntry are both absent or both present,
\* and when present currentWordEntry.word is secretWord.
C21_WordAndEntryAgree ==
    /\ secretWord = NullStr <=> currentWordEntry = NullEntry
    /\ currentWordEntry # NullEntry => currentWordEntry.word = secretWord

\* a second round has picked its word
C21_Witness ==
    /\ round = 2
    /\ secretWord # NullStr
    /\ currentWordEntry.word = secretWord
    /\ \E i \in 1..Len(sent) : sent[i].type = "new_round"

\* the events the server broadcasts; welcome and error go to one socket
BroadcastTypes == {"state", "chat_message", "thinking", "new_round", "round_skipped"}

\* C22: every broadcast event goes to all sockets registered when it is sent
\* (so two sockets registered over an interval get the same sequence of
\* broadcasts), and in the order of the mutations: a chat_message carries
\* the message that was appended last, a new_round the round just begun, a
\* thinking event or a state snapshot sent last the set as the step leaves it.
C22_UniformFanOut ==
    [][\A i \in 1..Len(sent') :
          /\ sent'[i].type \in BroadcastTypes => sent'[i].to = connections'
          /\ sent'[i].type \notin BroadcastTypes =>
                /\ sent'[i].type \in {"welcome", "error"}
                /\ Cardinality(sent'[i].to) = 1
          /\ sent'[i].type = "chat_message" =>
                /\ chatHistory' # <<>>
                /\ sent'[i].message = chatHistory'[Len(chatHistory')]
          /\ sent'[i].type = "new_round" => sent'[i].round = round'
          /\ (i = Len(sent') /\ sent'[i].type \in {"thinking", "state"}) =>
                sent'[i].thinkingForPlayers = thinkingForPlayers']_vars

\* a chat message has just gone out to both of two registered sockets
C22_Witness ==
    /\ Cardinality(connections) = 2
    /\ \E i \in 1..Len(sent) :
          /\ sent[i].type = "chat_message"
          /\ sent[i].to = connections

\* C23 (as claimed): every step that changes thinkingForPlayers broadcasts a
\* thinking event that carries the new set.
C23_ThinkingDeltasTrackSet ==
    [][thinkingForPlayers' # thinkingForPlayers =>
          \E i \in 1..Len(sent') :
              /\ sent'[i].type = "thinking"
              /\ sent'[i].thinkingForPlayers = thinkingForPlayers']_vars

\* C24: a player's score is 0 when the player is created, never decreases,
\* and changes only by +1 in the step that accepts a correct guess of that
\* same player; no step changes the score of anyone but the guesser.
C24_Scores ==
    [][/\ \A p \in DOMAIN score' \ DOMAIN score : score'[p] = 0
       /\ \A p \in DOMAIN score :
             /\ p \in DOMAIN score'
             /\ score'[p] # score[p] =>
                   /\ score'[p] = score[p] + 1
                   /\ \E q \in queries :
                         /\ Resumed(q)
                         /\ q.playerId = p
                         /\ q.pc = "detectGuess"
                   /\ \E t \in timers' \ timers : t.player = p
                   /\ chatHistory'[Len(chatHistory')].kind = "win"
                   /\ chatHistory'[Len(chatHistory')].about = p]_vars

\* one of two players has just scored, the other has not
C24_Witness ==
    /\ step = "win"
    /\ \E p, o \in DOMAIN score : score[p] = 1 /\ score[o] = 0

\* this step ran a startNewRound call from its start: an honored new_round
\* request, a grace timer, or the join of the first player with no word set
StartStep ==
    \/ step' \in {"new_round", "timer"}
    \/ step' = "open" /\ players = <<>> /\ secretWord = NullStr

\* C25: every startNewRound call, in the step that begins it, increments
\* round by 1, empties chatHistory (what the step leaves in it is what the
\* call itself posted afterwards), empties thinkingForPlayers and broadcasts
\* the empty set, and sets lastWinner to its winner argument: the guesser
\* for a grace timer, nobody for a manual or first-join start.
C25_StartRoundFirstStep ==
    [][StartStep =>
          /\ round' = round + 1
          /\ Len(chatHistory') <= 2
          /\ \A i \in 1..Len(chatHistory') :
                chatHistory'[i].kind \in {"preparing", "round_begins"}
          /\ thinkingForPlayers' = {}
          /\ \E i \in 1..Len(sent') :
                /\ sent'[i].type = "thinking"
                /\ sent'[i].thinkingForPlayers = {}
                /\ \A j \in 1..(i - 1) : sent'[j].type \in {"welcome", "state"}
          /\ IF step' = "timer"
             THEN \E t \in timers \ timers' : lastWinner' = t.player
             ELSE lastWinner' = NoPlayer]_vars

\* a grace timer has just started round 2 over a log that held messages
C25_Witness ==
    /\ step = "timer"
    /\ round = 2
    /\ lastWinner # NoPlayer
    /\ thinkingForPlayers = {}
    /\ Len(chatHistory) <= 1

\* C26 (as claimed): when initialization fails, the call ends with round
\* incremented, corpusReady false, no secret word set, the error message
\* appended to chatHistory, a state snapshot broadcast and no new_round
\* event.
C26_InitFailureLeavesNoWord ==
    [][step' = "init_failed" =>
          /\ round' = round
          /\ round >= 1
          /\ ~corpusReady'
          /\ secretWord' = NullStr
          /\ chatHistory' = Append(chatHistory, SystemMsg("init_failed", NoPlayer))
          /\ Len(sent') = 1
          /\ sent'[1].type = "state"]_vars

\* C27 (as claimed): until corpusReady is true at most one batch-generation
\* call of initializeCorpus is in flight, however many startNewRound calls
\* overlap while the corpus is loading.
C27_OneInitBatch ==
    Cardinality({call \in starts : call.pc = "init"}) <= 1

\* the session state a startNewRound call that ends without a word leaves
\* alone (the word table may have gained rows)
NoWordFrame ==
    <<players, score, connections, pendingClose, nextId, secretWord,
      currentWordEntry, round, chatHistory, thinkingForPlayers, lastWinner,
      corpusReady, queries, nextQuery, timers>>

\* C28: a startNewRound call whose pick found no word suspends in one batch
\* generation; when that returns the pick is retried once and the call
\* ends, and when it fails the call ends without a retry.  Ending without a
\* word (generation failed, or the table is still empty) the call sets no
\* secret word, posts no message and sends nothing, no error included.
C28_ReplenishOnce ==
    [][step' \in {"replenished", "replenish_failed"} =>
          /\ \E call \in starts :
                /\ call.pc = "replenish"
                /\ starts' = starts \ {call}
          /\ (step' = "replenish_failed" \/ db' = {}) =>
                /\ sent' = <<>>
                /\ UNCHANGED NoWordFrame
          /\ (step' = "replenished" /\ db' # {}) =>
                /\ secretWord' \in WordsOf(db')
                /\ chatHistory' # <<>>
                /\ chatHistory'[Len(chatHistory')].kind = "round_begins"
                /\ \E i \in 1..Len(sent') : sent'[i].type = "new_round"]_vars

\* the replenishment after a win has just failed: the call is over, no round
\* was announced and the guessed word is still the secret word
C28_Witness ==
    /\ step = "replenish_failed"
    /\ round = 2
    /\ secretWord \in guessed
    /\ sent = <<>>
    /\ starts = {}

\* C29: when an Oracle call of a query fails, nothing is appended to
\* chatHistory, no chat message is sent and no score changes; if round is
\* still the round the query captured, the player's flag is removed and one
\* thinking event carries the new set; if round has advanced,
\* thinkingForPlayers is left as it is and nothing is sent.
C29_FailedQuery ==
    [][step' \in {"failed", "failed_stale"} =>
          /\ chatHistory' = chatHistory
          /\ score' = score
          /\ UNCHANGED <<secretWord, round, db, timers, starts>>
          /\ \E q \in queries :
                /\ queries' = queries \ {q}
                /\ IF round = q.requestRound
                   THEN /\ thinkingForPlayers' = thinkingForPlayers \ {q.playerId}
                        /\ sent' = <<[type |-> "thinking", to |-> connections,
                                      playerId |-> q.playerId, isThinking |-> FALSE,
                                      thinkingForPlayers |-> thinkingForPlayers']>>
                   ELSE /\ thinkingForPlayers' = thinkingForPlayers
                        /\ sent' = <<>>]_vars

\* a call has just failed after its round was over; nothing was sent
C29_Witness ==
    /\ step = "failed_stale"
    /\ round = 2
    /\ sent = <<>>

\* the classifier replies of Responses that name a non-empty target, with
\* the secret word that target matches
WinningReplies ==
    { <<<<"G","U","E","S","S",":"," ","c","a","t">>, str_cat>>,
      <<<<"g","u","e","s","s",":","P","i","z","z","a">>, str_pizza>> }

\* C30: when the classifier call of a query returns in the query's own
\* round, the step is a win exactly when the reply names a non-empty guess
\* target that checkGuess accepts against the secret word of that moment;
\* a reply that is no guess, or a guess with an empty target, goes to the
\* question path, and neither that step nor the answer that follows changes
\* a score.
C30_WinDecision ==
    [][/\ \A q \in queries, response \in Responses :
             (/\ q.pc = "detectGuess"
              /\ round = q.requestRound
              /\ Resumed(q)
              /\ DetectReturned(q, response)) =>
                 /\ WinStep <=> /\ detectGuess(response) # NullStr
                                 /\ checkGuess(detectGuess(response), secretWord)
                 /\ WinStep <=> <<response, secretWord>> \in WinningReplies
                 /\ score' # score => WinStep
                 /\ detectGuess(response) = NullStr =>
                       /\ step' \in {"ask", "answer"}
                       /\ score' = score
       /\ \A q \in queries :
             (q.pc = "answerQuestion" /\ Resumed(q)) =>
                 /\ ~WinStep
                 /\ score' = score]_vars

\* a guess has just won against the word of its round, with a second query
\* of that round still in flight
C30_Witness ==
    /\ step = "win"
    /\ wins = 1
    /\ \E q \in queries : q.orphan
    /\ \E i \in DOMAIN score : score[i] = 1

\* ------------------------------------------------------------ C31
\* a startNewRound call was begun by the step
StartTriggered == round' # round

\* C31 (as claimed): an accepted connection starts a round exactly when, with
\* the new player added, the player list has one player and no secret word
\* is set, and so at most one call started by a join is in progress at a
\* time. Under SpecCap every call in starts was started by a join.
C31_JoinStartsOneRound ==
    [][step' = "open" =>
          /\ StartTriggered <=> (Len(players') = 1 /\ secretWord = NullStr)
          /\ Cardinality(starts') <= 1]_vars

\* ------------------------------------------------------------ C32
MalformedStep == step' \in BadPayloads

\* C32: a payload that is not valid JSON, has an unknown type, or is a question
\* with missing or non-text content changes no session state, sends nothing,
\* and leaves the connection open and registered.
C32_MalformedHarmless ==
    [][MalformedStep =>
          /\ UNCHANGED SessionState
          /\ UNCHANGED <<pendingClose, wins, guessed>>
          /\ sent' = <<>>]_vars

\* a contentless question arrived while a word was set and the sender was not
\* thinking, with another player's query in flight
C32_Witness ==
    /\ step \in {"no_content", "non_text_content"}
    /\ secretWord # NullStr
    /\ \E p \in connections : p \notin thinkingForPlayers
    /\ queries # {}

\* ------------------------------------------------------------ C33
\* C33 (as claimed): a query that passes the epoch check is evaluated or
\* answered against the secret word that was set when it was submitted.
C33_SameWordAtResolution ==
    [][\A q \in queries :
          (/\ Resumed(q)
           /\ q.requestRound = round
           /\ step' \in {"win", "wrong", "ask", "answer"})
              => secretWord = q.word]_vars

\* ------------------------------------------------------------ C34
\* a startNewRound call ran to its end in the step without setting a word
EndedWithoutWord ==
    /\ \/ step' \in {"init_failed", "replenish_failed"}
       \/ StartStep /\ Cardinality(starts') = Cardinality(starts)
    /\ \A i \in 1..Len(sent') : sent'[i].type # "new_round"

\* C34 (as claimed): a startNewRound call that obtains no word does not leave
\* an already guessed and deleted word as the secret word.
C34_NoStaleWord ==
    [][EndedWithoutWord =>
          ~(secretWord' \in guessed' /\ secretWord' \notin WordsOf(db'))]_vars

\* ------------------------------------------------------------ C35
\* C35 (as claimed): when the query of a player who has disconnected is
\* resolved, no chat message is appended, no score awarded, no word deleted
\* and no round scheduled, and lastWinner only names a player who was
\* connected when the win was accepted.
C35_DepartedQueriesInert ==
    [][/\ \A q \in queries :
             (Resumed(q) /\ q.playerId \notin PlayerIds(gameState)) =>
                 /\ chatHistory' = chatHistory
                 /\ score' = score
                 /\ db' = db
                 /\ timers' = timers
       /\ lastWinner' # lastWinner =>
             lastWinner' \in PlayerIds(gameState) \cup {NoPlayer}]_vars

\* ------------------------------------------------------------ C36
\* C36 (as claimed): the round numbers carried by successive new_round events
\* are strictly increasing.
C36_NewRoundsIncrease ==
    [][\A i \in 1..Len(sent') :
          sent'[i].type = "new_round" => sent'[i].round > client.newRound]_vars

\* ------------------------------------------------------------ C37
\* a startNewRound call ran to its end in the step
StartEnded ==
    \/ /\ step' \in {"init_generated", "init_failed", "replenished",
                     "replenish_failed"}
       /\ Cardinality(starts') < Cardinality(starts)
    \/ StartStep /\ Cardinality(starts') = Cardinality(starts)

\* C37 (as claimed): when a startNewRound call has run to its end, the round
\* number last delivered to the connected clients in a state or new_round
\* event is the server's round.
C37_ClientsKnowRound ==
    [][(StartEnded /\ connections' # {}) => client'.round = round']_vars

\* ------------------------------------------------------------ C38
\* the log positions of the Oracle's replies
Replies == {j \in 1..Len(chatHistory) : chatHistory[j].type = "answer"}

\* C38: every reply of the Oracle in chatHistory comes after the question of
\* the query it replies to, in the same log.
C38_AnswerFollowsQuestion ==
    \A j \in Replies :
       \E i \in 1..(j - 1) :
          chatHistory[i] = PlayerMsg(chatHistory[j].about, chatHistory[j].query)

\* the first round was won and its log cleared; the log of the second round
\* holds a reply of the Oracle
C38_Witness ==
    /\ round = 2
    /\ guessed # {}
    /\ Replies # {}

\* ------------------------------------------------------------ C39
\* C39: if every Oracle call eventually returns or fails and players eventually
\* stop submitting, every player id in thinkingForPlayers is eventually
\* removed from it.
C39_ThinkingEventuallyCleared ==
    \A p \in 1..LiveIds :
       (p \in thinkingForPlayers) ~> (p \notin thinkingForPlayers)

\* a failed call of an earlier round left the flags alone while a player of
\* the current round is thinking
C39_Witness ==
    /\ step = "failed_stale"
    /\ thinkingForPlayers # {}
    /\ queries # {}

====
